---- MODULE Spec2Model ----
(***************************************************************************)
(* Verification development for droneforce-backend.                        *)
(*                                                                         *)
(*   SpecParser     LogParser.parse            (src/validator/parser.py)   *)
(*   SpecValidator  FlightValidator            (src/validator/validator.py)*)
(*   SpecHash       report-hash input          (src/main.py:82-98)         *)
(*   Spec           process_drone_log, whole handler, concurrent runs      *)
(*   SpecRun        Spec plus the runs that continue from main.py:67       *)
(*                                                                         *)
(* Units: angles are whole degrees, altitudes whole metres, times whole    *)
(* seconds.  Raw GPS fields are the scaled integers of the recording       *)
(* (degrees * 1e7, centimetres); inputs are chosen so that the code's      *)
(* divisions are exact.                                                    *)
(***************************************************************************)
EXTENDS Integers, Sequences, FiniteSets, TLC

VARIABLES
    log,          \* parser: the recording being read (sequence of messages)
    parser,       \* parser: locals of LogParser.parse
    parse_out,    \* parser: what parse() raised / returned
    vin,          \* validator: constructor arguments
    validator,    \* validator: the FlightValidator object ({} before __init__)
    calls,        \* validator: results of the public calls made so far
    hruns,        \* hash: the runs whose hash input has been built
    blob,         \* handler: storage bucket, path -> recording
    tasks,        \* handler: Firestore tasks collection
    runs,         \* handler: per-invocation locals of process_drone_log
    tempfiles,    \* handler: temporary files present on disk
    arweave,      \* handler: uploads accepted by Arweave
    ledger        \* handler: record_verification calls accepted by Solana

pvars == <<log, parser, parse_out>>
vvars == <<vin, validator, calls>>
hvars == <<hruns>>
rvars == <<blob, tasks, runs, tempfiles, arweave, ledger>>
vars  == <<log, parser, parse_out, vin, validator, calls, hruns,
           blob, tasks, runs, tempfiles, arweave, ledger>>

-----------------------------------------------------------------------------
(* Generic helpers                                                         *)

RECURSIVE SeqMin(_)
SeqMin(s) == IF Len(s) = 1 THEN s[1]
             ELSE LET m == SeqMin(Tail(s)) IN IF s[1] < m THEN s[1] ELSE m

RECURSIVE SeqMax(_)
SeqMax(s) == IF Len(s) = 1 THEN s[1]
             ELSE LET m == SeqMax(Tail(s)) IN IF s[1] > m THEN s[1] ELSE m

RECURSIVE SeqSum(_)
SeqSum(s) == IF s = <<>> THEN 0 ELSE s[1] + SeqSum(Tail(s))

SeqsUpTo(S, n) == UNION { [1..k -> S] : k \in 0..n }

\* Python truthiness of a number: 0 and 0.0 are falsy.
Truthy(x) == x # 0

-----------------------------------------------------------------------------
(* LogParser  (src/validator/parser.py)                                    *)

MaxMsgs == 3

LatScale == 10000000
AltScale == 100
FixThreshold == 3

GpsMsgs == [type : {"GPS"}, Status : {2, 3}, Lat : {60 * LatScale},
            Lng : {20 * LatScale}, Alt : {10 * AltScale, 20 * AltScale},
            ts : {0, 30, 61}, Name : {""}, Value : {""}]
ParmMsgs == [type : {"PARM"}, Status : {0}, Lat : {0}, Lng : {0}, Alt : {0},
             ts : {0}, Name : {"OPERATOR_PUBKEY", "SYSID_THISMAV"},
             Value : {"key1"}]
OtherMsgs == [type : {"ATT"}, Status : {0}, Lat : {0}, Lng : {0}, Alt : {0},
              ts : {0}, Name : {""}, Value : {""}]
Msgs == GpsMsgs \cup ParmMsgs \cup OtherMsgs

Recordings == SeqsUpTo(Msgs, MaxMsgs)

\* locals of parse() before the loop (parser.py:48-51)
ParseStart == [pc |-> "loop", pos |-> 1, gps_points |-> <<>>,
               altitudes |-> <<>>, timestamps |-> <<>>,
               operator_pubkey |-> "None"]

\* GpsBranch with the fix-quality test loosened to "2D fix or better"
GpsBranchAny2D(st, msg) ==
    IF msg.Status >= FixThreshold - 1
    THEN LET alt == msg.Alt \div AltScale
         IN [st EXCEPT !.gps_points = Append(@, [lat |-> msg.Lat \div LatScale,
                                                 lng |-> msg.Lng \div LatScale,
                                                 alt |-> alt,
                                                 timestamp |-> msg.ts]),
                       !.altitudes = Append(@, alt),
                       !.timestamps = Append(@, msg.ts)]
    ELSE st

\* GpsBranch that puts the newest fix first instead of last
GpsBranchPrepend(st, msg) ==
    IF msg.Status >= FixThreshold
    THEN LET alt == msg.Alt \div AltScale
         IN [st EXCEPT !.gps_points = <<[lat |-> msg.Lat \div LatScale,
                                         lng |-> msg.Lng \div LatScale,
                                         alt |-> alt,
                                         timestamp |-> msg.ts]>> \o @,
                       !.altitudes = Append(@, alt),
                       !.timestamps = Append(@, msg.ts)]
    ELSE st

\* the GPS branch of the loop body (parser.py:62-77)
GpsBranch(st, msg) ==
    IF msg.Status >= FixThreshold
    THEN LET lat == msg.Lat \div LatScale
             lng == msg.Lng \div LatScale
             alt == msg.Alt \div AltScale
             timestamp == msg.ts
         IN [st EXCEPT !.gps_points = Append(@, [lat |-> lat, lng |-> lng,
                                                 alt |-> alt,
                                                 timestamp |-> timestamp]),
                       !.altitudes = Append(@, alt),
                       !.timestamps = Append(@, timestamp)]
    ELSE st

\* one iteration of the message loop (parser.py:55-81)
ProcessMsg(st, msg) ==
    LET st1 == IF msg.type = "GPS" THEN GpsBranch(st, msg)
               ELSE IF msg.type = "PARM" /\ msg.Name = "OPERATOR_PUBKEY"
               THEN [st EXCEPT !.operator_pubkey = msg.Value]
               ELSE st
    IN [st1 EXCEPT !.pos = @ + 1]

\* duration as the code computes it (parser.py:89)
Duration(start_time, end_time) ==
    IF Truthy(start_time) /\ Truthy(end_time) THEN end_time - start_time ELSE 0

\* the summary built after the loop (parser.py:87-101); avg_altitude is kept
\* as the exact fraction sum/len
Summary(st) ==
    LET start_time == SeqMin(st.timestamps)
        end_time == SeqMax(st.timestamps)
    IN [gps_points |-> st.gps_points,
        start_time |-> start_time,
        end_time |-> end_time,
        duration |-> Duration(start_time, end_time),
        max_altitude |-> SeqMax(st.altitudes),
        avg_altitude |-> <<SeqSum(st.altitudes), Len(st.altitudes)>>,
        operator_pubkey |-> st.operator_pubkey]

\* the guard after the loop (parser.py:84-85)
NoPoints(st) == st.gps_points = <<>>

\* what parse() does once the stream is exhausted (parser.py:83-101)
ParseEnd(st) ==
    IF NoPoints(st)
    THEN [raised |-> "ValueError", returned |-> {}]
    ELSE [raised |-> "", returned |-> {Summary(st)}]

RECURSIVE ParseLoop(_, _)
ParseLoop(st, rec) ==
    IF st.pos > Len(rec) THEN st ELSE ParseLoop(ProcessMsg(st, rec[st.pos]), rec)

\* LogParser.parse as a function of the recording
Parse(rec) == ParseEnd(ParseLoop(ParseStart, rec))

NoOut == [raised |-> "", returned |-> {}]

ParserIdle == /\ log = <<>>
              /\ parser = [ParseStart EXCEPT !.pc = "off"]
              /\ parse_out = NoOut

InitParser == /\ log \in Recordings
              /\ parser = ParseStart
              /\ parse_out = NoOut

\* log.recv_match() returned a message
RecvMatch == /\ parser.pc = "loop"
             /\ parser.pos <= Len(log)
             /\ parser' = ProcessMsg(parser, log[parser.pos])
             /\ UNCHANGED <<log, parse_out, vvars, hvars, rvars>>

\* log.recv_match() returned None: leave the loop, raise or return
ParseFinish == /\ parser.pc = "loop"
               /\ parser.pos > Len(log)
               /\ parse_out' = ParseEnd(parser)
               /\ parser' = [parser EXCEPT !.pc = "done"]
               /\ UNCHANGED <<log, vvars, hvars, rvars>>

-----------------------------------------------------------------------------
(* FlightValidator  (src/validator/validator.py)                           *)

MaxPoints == 2
MaxCalls == 2

MetresPerDegree == 111000

\* exact quotient for operands of either sign
Quot(a, b) == IF b > 0 THEN a \div b ELSE -(a \div (-b))

\* math.cos(math.radians(lat)) as the exact fraction num/den, for the centre
\* latitudes used here
CosNum(lat) == CASE lat = 0 -> 1 [] lat = 60 -> 1 [] lat = 120 -> -1
CosDen(lat) == CASE lat = 0 -> 1 [] lat = 60 -> 2 [] lat = 120 -> 2

CenterLats == {0, 60, 120}

\* the task contract the flights are judged against, up to the centre
\* latitude and the geofencing flag
BaseTask == [lng |-> 20, area_size |-> 2 * MetresPerDegree, altitude |-> 50,
             duration |-> 60]

\* BelowMin with the edge itself counted as outside
BelowMinExclusive(x, lo) == x <= lo

\* a limit as written in _validate_geofence (validator.py:104-107)
BelowMin(x, lo) == x < lo
AboveMax(x, hi) == x > hi

\* FlightValidator.__init__ (validator.py:16-54): the object it builds
NewValidator(flight_data, location, area_size, max_altitude, min_duration, geofencing_enabled) ==
    LET lat_offset == Quot(area_size \div 2, MetresPerDegree)
        lng_offset == Quot((area_size \div 2) * CosDen(location.lat),
                           MetresPerDegree * CosNum(location.lat))
    IN [flight_data |-> flight_data,
        center_location |-> location,
        area_size |-> area_size,
        max_altitude |-> max_altitude,
        min_duration |-> min_duration,
        geofencing_enabled |-> geofencing_enabled,
        bounds |-> [min_lat |-> location.lat - lat_offset,
                    max_lat |-> location.lat + lat_offset,
                    min_lng |-> location.lng - lng_offset,
                    max_lng |-> location.lng + lng_offset]]

\* _validate_duration with a strict comparison
ValidateDurationStrict(v) == v.flight_data.duration > v.min_duration

\* _validate_duration (validator.py:77-84)
ValidateDuration(v) == v.flight_data.duration >= v.min_duration

\* _validate_altitude (validator.py:86-93)
ValidateAltitude(v) == v.flight_data.max_altitude <= v.max_altitude

\* the test on one point in _validate_geofence (validator.py:104-107)
PointOutside(point, b) ==
    \/ BelowMin(point.lat, b.min_lat)
    \/ AboveMax(point.lat, b.max_lat)
    \/ BelowMin(point.lng, b.min_lng)
    \/ AboveMax(point.lng, b.max_lng)

\* _validate_geofence (validator.py:95-110): the loop with its early return,
\* started at index i
RECURSIVE GeofenceLoop(_, _, _)
GeofenceLoop(points, b, i) ==
    IF i > Len(points) THEN TRUE
    ELSE IF PointOutside(points[i], b) THEN FALSE
    ELSE GeofenceLoop(points, b, i + 1)

ValidateGeofence(v) == GeofenceLoop(v.flight_data.gps_points, v.bounds, 1)

\* geofence_valid as both public methods compute it (validator.py:69-72,
\* 127-129)
GeofenceValid(v) == IF v.geofencing_enabled THEN ValidateGeofence(v) ELSE TRUE

\* FlightValidator.validate (validator.py:56-75)
Validate(v) ==
    LET duration_valid == ValidateDuration(v)
        altitude_valid == ValidateAltitude(v)
        geofence_valid == GeofenceValid(v)
    IN duration_valid /\ altitude_valid /\ geofence_valid

\* get_validation_details with its own, diverging overall computation that
\* forgets the geofence
GetValidationDetailsNoFence(v) ==
    [duration_valid |-> ValidateDuration(v),
     altitude_valid |-> ValidateAltitude(v),
     geofence_valid |-> GeofenceValid(v),
     overall_valid |-> ValidateDuration(v) /\ ValidateAltitude(v)]

\* FlightValidator.get_validation_details (validator.py:112-136)
GetValidationDetails(v) ==
    LET duration_valid == ValidateDuration(v)
        altitude_valid == ValidateAltitude(v)
        geofence_valid == GeofenceValid(v)
    IN [duration_valid |-> duration_valid,
        altitude_valid |-> altitude_valid,
        geofence_valid |-> geofence_valid,
        overall_valid |-> duration_valid /\ altitude_valid /\ geofence_valid]

\* Flights handed to the validator: summaries as parse() builds them, from
\* fixes around the centre, all at one altitude, the last fix `d` seconds
\* after the first.
PointOffsets == { <<0, 0>>, <<1, 0>>, <<2, 0>>, <<-1, -1>>, <<-2, 0>>,
                  <<0, 1>>, <<0, 2>>, <<0, -2>>, <<0, 3>> }
FlightAlts == {BaseTask.altitude - 1, BaseTask.altitude, BaseTask.altitude + 1}
FlightSpans == {BaseTask.duration - 1, BaseTask.duration, BaseTask.duration + 1}

FlightOf(clat, offs, alt, d) ==
    LET n == Len(offs)
        tsq == [i \in 1..n |-> IF i = n /\ n > 1 THEN 5 + d ELSE 5]
        pts == [i \in 1..n |-> [lat |-> clat + offs[i][1],
                                lng |-> BaseTask.lng + offs[i][2],
                                alt |-> alt, timestamp |-> tsq[i]]]
    IN Summary([ParseStart EXCEPT !.gps_points = pts,
                                  !.altitudes = [i \in 1..n |-> alt],
                                  !.timestamps = tsq])

ValidatorInputs ==
    { [flight_data |-> FlightOf(clat, offs, alt, d),
       location |-> [lat |-> clat, lng |-> BaseTask.lng],
       area_size |-> BaseTask.area_size,
       max_altitude |-> BaseTask.altitude,
       min_duration |-> BaseTask.duration,
       geofencing_enabled |-> g] :
      clat \in CenterLats, offs \in SeqsUpTo(PointOffsets, MaxPoints) \ {<<>>},
      alt \in FlightAlts, d \in FlightSpans, g \in BOOLEAN }

NoInput == [flight_data |-> FlightOf(0, <<<<0, 0>>>>, 0, 0),
            location |-> [lat |-> 0, lng |-> 0],
            area_size |-> 0, max_altitude |-> 0, min_duration |-> 0,
            geofencing_enabled |-> FALSE]

ValidatorIdle == /\ vin = NoInput
                 /\ validator = {}
                 /\ calls = <<>>

InitValidator == /\ vin \in ValidatorInputs
                 /\ validator = {}
                 /\ calls = <<>>

\* validator = FlightValidator(...)
Construct ==
    /\ validator = {}
    /\ validator' = {NewValidator(vin.flight_data, vin.location, vin.area_size,
                                  vin.max_altitude, vin.min_duration,
                                  vin.geofencing_enabled)}
    /\ UNCHANGED <<vin, calls, pvars, hvars, rvars>>

\* validator.validate()
CallValidate ==
    /\ Len(calls) < MaxCalls
    /\ \E v \in validator :
         calls' = Append(calls, [fn |-> "validate", overall |-> Validate(v),
                                 details |-> {}])
    /\ UNCHANGED <<vin, validator, pvars, hvars, rvars>>

\* validator.get_validation_details()
CallDetails ==
    /\ Len(calls) < MaxCalls
    /\ \E v \in validator :
         LET d == GetValidationDetails(v)
         IN calls' = Append(calls, [fn |-> "details",
                                    overall |-> d.overall_valid,
                                    details |-> {d}])
    /\ UNCHANGED <<vin, validator, pvars, hvars, rvars>>

-----------------------------------------------------------------------------
(* Report hash input  (src/main.py:82-98)                                  *)
(* Byte strings are sequences of tokens; a token stands for the run of     *)
(* characters written between its quotes.                                  *)

DigitChar(d) == CASE d = 0 -> "0" [] d = 1 -> "1" [] d = 2 -> "2" [] d = 3 -> "3"
                  [] d = 4 -> "4" [] d = 5 -> "5" [] d = 6 -> "6" [] d = 7 -> "7"
                  [] d = 8 -> "8" [] d = 9 -> "9"

\* json.dumps of an int: its decimal digits
RECURSIVE JsonInt(_)
JsonInt(n) == IF n < 0 THEN <<"-">> \o JsonInt(-n)
              ELSE IF n < 10 THEN <<DigitChar(n)>>
              ELSE JsonInt(n \div 10) \o <<DigitChar(n % 10)>>

\* json.dumps of a bool
JsonBool(b) == IF b THEN <<"true">> ELSE <<"false">>

\* str() of a Python bool
PyStr(b) == IF b THEN <<"True">> ELSE <<"False">>

\* json.dumps of the location dict (keys in stored order)
JsonLocation(loc) ==
    <<"{", "\"lat\"", ": ">> \o JsonInt(loc.lat) \o
    <<", ", "\"lng\"", ": ">> \o JsonInt(loc.lng) \o <<"}">>

\* verification_params (main.py:83-89)
VerificationParams(task_spec) ==
    <<"{", "\"location\"", ": ">> \o JsonLocation(task_spec.location) \o
    <<", ", "\"area_size\"", ": ">> \o JsonInt(task_spec.area_size) \o
    <<", ", "\"altitude\"", ": ">> \o JsonInt(task_spec.altitude) \o
    <<", ", "\"duration\"", ": ">> \o JsonInt(task_spec.duration) \o
    <<", ", "\"geofencing_enabled\"", ": ">> \o
    JsonBool(task_spec.geofencing_enabled) \o <<"}">>

\* verification_data without the verdict
VerificationDataNoVerdict(log_content, task_spec, verification_result) ==
    log_content \o VerificationParams(task_spec)

\* verification_data (main.py:96)
VerificationData(log_content, task_spec, verification_result) ==
    log_content \o VerificationParams(task_spec) \o PyStr(verification_result)

\* hashlib.sha256(...).hexdigest(), taken to be collision free: the digest is
\* represented by the byte string it was computed from
Sha256Hex(data) == [sha256 |-> data]

TaskSpecOf(clat, area, alt, dur, g) ==
    [location |-> [lat |-> clat, lng |-> BaseTask.lng], area_size |-> area,
     altitude |-> alt, duration |-> dur, geofencing_enabled |-> g]

BaseSpec == TaskSpecOf(60, BaseTask.area_size, BaseTask.altitude,
                       BaseTask.duration, TRUE)

\* the base contract and its one-field variations
HashSpecs == { BaseSpec,
               [BaseSpec EXCEPT !.location.lat = 0],
               [BaseSpec EXCEPT !.area_size = 2 * @],
               [BaseSpec EXCEPT !.duration = 6],
               [BaseSpec EXCEPT !.geofencing_enabled = FALSE] }

\* raw recordings, among them ones that end like the start of the
\* serialized parameters or contain the verdict's text
HashRaws == { <<>>, <<"\\xa3\\x95">>,
              <<"\\xa3\\x95">> \o SubSeq(VerificationParams(BaseSpec), 1, 3),
              <<"\\xa3\\x95">> \o VerificationParams(BaseSpec),
              <<"\\xa3\\x95", "True">> }

HashTaskIds == {"t1", "t2"}

HashIdle == hruns = [prev |-> {}, cur |-> {}]

InitHash == hruns = [prev |-> {}, cur |-> {}]

\* one run reaches main.py:96-97 with these values
BuildHash ==
    /\ UNCHANGED <<pvars, vvars, rvars>>
    /\ \E raw \in HashRaws, ts \in HashSpecs, res \in BOOLEAN, tid \in HashTaskIds :
        hruns' = [prev |-> hruns.cur,
                  cur |-> {[task_id |-> tid, log_content |-> raw,
                            task_spec |-> ts, verification_result |-> res,
                            verification_data |->
                                VerificationData(raw, ts, res)]}]

-----------------------------------------------------------------------------
(* process_drone_log  (src/main.py:25-131)                                 *)

RunIds == {1, 2}

\* object paths in the bucket, as token sequences
LogT1 == <<"logs", "/", "t1", ".bin">>
Paths == { LogT1,
           <<"logs", "/", "t9", ".bin">>,
           <<"logs", "/", "2024", "/", "t1", ".bin">>,
           <<"logs", "/", "t1", ".txt">>,
           <<"img", "/", "t1", ".bin">> }

\* file_path.startswith('logs/')
StartsWithLogs(path) == Len(path) >= 2 /\ path[1] = "logs" /\ path[2] = "/"

\* str.endswith('.bin')
EndsWithBin(path) == Len(path) >= 1 /\ path[Len(path)] = ".bin"

\* the tokens of path before the first '/' at or after index i
RECURSIVE UpToSlash(_, _)
UpToSlash(path, i) ==
    IF i > Len(path) \/ path[i] = "/" THEN <<>>
    ELSE <<path[i]>> \o UpToSlash(path, i + 1)

\* index just after the first '/' at or after index i
RECURSIVE AfterSlash(_, _)
AfterSlash(path, i) ==
    IF i > Len(path) THEN i
    ELSE IF path[i] = "/" THEN i + 1 ELSE AfterSlash(path, i + 1)

\* s.replace('.bin', '')
RECURSIVE DropBin(_)
DropBin(s) == IF s = <<>> THEN <<>>
              ELSE IF s[1] = ".bin" THEN DropBin(Tail(s))
              ELSE <<s[1]>> \o DropBin(Tail(s))

\* file_path.split('/')[1].replace('.bin', '')  (main.py:45)
TaskIdOf(path) == DropBin(UpToSlash(path, AfterSlash(path, 1)))

\* tempfile.NamedTemporaryFile(delete=False).name: directory, the fixed
\* prefix and eight random characters, no suffix
TempName(r) == <<"/tmp/", "tmp", IF r = 1 THEN "k3x9q_0a" ELSE "z7m2v1pd">>

\* LogParser.__init__ (parser.py:15-28)
LogParserInit(exists, log_path) ==
    IF ~exists THEN "FileNotFoundError"
    ELSE IF ~EndsWithBin(log_path) THEN "ValueError"
    ELSE "ok"

\* a recording's bytes: one frame of tokens per message
Frame(m) == <<m.type>> \o JsonInt(m.Status) \o JsonInt(m.Lat) \o JsonInt(m.Lng)
            \o JsonInt(m.Alt) \o JsonInt(m.ts) \o <<m.Name, m.Value>>
RECURSIVE FileBytes(_)
FileBytes(rec) == IF rec = <<>> THEN <<>>
                  ELSE Frame(rec[1]) \o FileBytes(Tail(rec))

Fix(status, alt, t) ==
    [type |-> "GPS", Status |-> status, Lat |-> 60 * LatScale,
     Lng |-> 20 * LatScale, Alt |-> alt * AltScale, ts |-> t,
     Name |-> "", Value |-> ""]

\* uploaded recordings: a flight of 31 s at up to 20 m, a single fix, a
\* flight whose first fix is at time 0, and one without any 3D fix
Uploads == { <<Fix(3, 10, 30), Fix(3, 20, 61)>>,
             <<Fix(3, 10, 30)>>,
             <<Fix(3, 10, 0), Fix(3, 20, 61)>>,
             <<Fix(2, 10, 30)>> }

\* the contracts stored for task t1
StoredSpecs == { [BaseSpec EXCEPT !.duration = 30],
                 BaseSpec,
                 [BaseSpec EXCEPT !.duration = 30, !.altitude = 15],
                 [BaseSpec EXCEPT !.duration = 30, !.geofencing_enabled = FALSE] }

TaskIds == { TaskIdOf(path) :
             path \in { q \in Paths : StartsWithLogs(q) /\ EndsWithBin(q) } }
T1 == <<"t1">>

NoRun == [pc |-> "idle", file_path |-> <<>>, task_id |-> <<>>,
          task_spec |-> {}, missing_key |-> FALSE, log_file_path |-> <<>>,
          log_content |-> <<>>,
          parsed_log |-> {}, verification_result |-> {},
          verification_report_hash |-> {}, arweave_tx_id |-> {},
          tx_signature |-> {}, raised |-> "", writes |-> 0]

NoDoc == [exists |-> FALSE, task_spec |-> {}, missing_key |-> FALSE,
          verification |-> {}]

\* the except clause (main.py:129-131): print and re-raise
Raise(run, exc) == [run EXCEPT !.pc = "raised", !.raised = exc]

\* a run is between its first statement and its return or raise
Active(run) == run.pc \notin {"idle", "ignored", "done", "raised"}

HandlerIdle == /\ blob = [path \in Paths |-> <<>>]
               /\ tasks = [t \in TaskIds |-> NoDoc]
               /\ runs = [r \in RunIds |-> NoRun]
               /\ tempfiles = {}
               /\ arweave = {}
               /\ ledger = <<>>

InitHandler ==
    /\ blob = [path \in Paths |-> <<>>]
    /\ \E ts \in StoredSpecs, mk \in BOOLEAN :
         tasks = [t \in TaskIds |->
                    IF t = T1 THEN [exists |-> TRUE, task_spec |-> {ts},
                                    missing_key |-> mk, verification |-> {}]
                    ELSE NoDoc]
    /\ runs = [r \in RunIds |-> NoRun]
    /\ tempfiles = {}
    /\ arweave = {}
    /\ ledger = <<>>

\* an object is finalized in the bucket and the function is invoked with its
\* event (main.py:25-26)
Trigger(r, path, content) ==
    /\ runs[r].pc = "idle"
    /\ blob' = [blob EXCEPT ![path] = content]
    /\ runs' = [runs EXCEPT ![r] = [@ EXCEPT !.pc = "start",
                                              !.file_path = path]]
    /\ UNCHANGED <<tasks, tempfiles, arweave, ledger, pvars, vvars, hvars>>

\* main.py:36-46: filter the path, extract the task id
Start(r) ==
    /\ runs[r].pc = "start"
    /\ LET path == runs[r].file_path IN
       runs' = [runs EXCEPT ![r] =
                  IF ~StartsWithLogs(path) \/ ~EndsWithBin(path)
                  THEN [@ EXCEPT !.pc = "ignored"]
                  ELSE [@ EXCEPT !.pc = "get_task",
                                 !.task_id = TaskIdOf(path)]]
    /\ UNCHANGED <<blob, tasks, tempfiles, arweave, ledger, pvars, vvars, hvars>>

\* main.py:48-54: read the task document
GetTask(r) ==
    /\ runs[r].pc = "get_task"
    /\ LET task_doc == tasks[runs[r].task_id] IN
       runs' = [runs EXCEPT ![r] =
                  IF ~task_doc.exists THEN Raise(@, "ValueError")
                  ELSE [@ EXCEPT !.pc = "download",
                                 !.task_spec = task_doc.task_spec,
                                 !.missing_key = task_doc.missing_key]]
    /\ UNCHANGED <<blob, tasks, tempfiles, arweave, ledger, pvars, vvars, hvars>>

\* main.py:56-63: create the temporary file and download the object into it;
\* the download may fail
Download(r, ok) ==
    /\ runs[r].pc = "download"
    /\ tempfiles' = tempfiles \cup {TempName(r)}
    /\ runs' = [runs EXCEPT ![r] =
                  IF ok THEN [@ EXCEPT !.pc = "construct",
                                       !.log_file_path = TempName(r),
                                       !.log_content = blob[runs[r].file_path]]
                  ELSE Raise(@, "DownloadError")]
    /\ UNCHANGED <<blob, tasks, arweave, ledger, pvars, vvars, hvars>>

\* main.py:66 with an except path that stores the failure as a non-compliant
\* verdict before re-raising
ConstructParserStoresFailure(r) ==
    /\ runs[r].pc = "construct"
    /\ tasks' = [tasks EXCEPT ![runs[r].task_id].verification =
                    {[by |-> r,
                      fields |-> [verification_result |-> {FALSE},
                                  verification_report_hash |-> {},
                                  arweave_tx_id |-> {},
                                  solana_tx_signature |-> {}]]}]
    /\ runs' = [runs EXCEPT ![r] = Raise(@, "ValueError")]
    /\ UNCHANGED <<blob, tempfiles, arweave, ledger, pvars, vvars, hvars>>

\* main.py:66: parser = LogParser(log_file_path)
ConstructParser(r) ==
    /\ runs[r].pc = "construct"
    /\ LET res == LogParserInit(runs[r].log_file_path \in tempfiles,
                                runs[r].log_file_path) IN
       runs' = [runs EXCEPT ![r] =
                  IF res = "ok" THEN [@ EXCEPT !.pc = "parse"]
                  ELSE Raise(@, res)]
    /\ UNCHANGED <<blob, tasks, tempfiles, arweave, ledger, pvars, vvars, hvars>>

\* main.py:67: parsed_log = parser.parse()
RunParse(r) ==
    /\ runs[r].pc = "parse"
    /\ LET res == Parse(runs[r].log_content) IN
       runs' = [runs EXCEPT ![r] =
                  IF res.raised # "" THEN Raise(@, res.raised)
                  ELSE [@ EXCEPT !.pc = "validate",
                                 !.parsed_log = res.returned]]
    /\ UNCHANGED <<blob, tasks, tempfiles, arweave, ledger, pvars, vvars, hvars>>

\* the value validator.validate() returns for a run's flight and contract
\* (main.py:70-79)
RunVerdict(parsed_log, ts) ==
    Validate(NewValidator(parsed_log, ts.location, ts.area_size, ts.altitude,
                          ts.duration, ts.geofencing_enabled))

\* main.py:69-80: build the validator (a missing parameter is a KeyError) and
\* validate
RunValidate(r) ==
    /\ runs[r].pc = "validate"
    /\ runs' = [runs EXCEPT ![r] =
                  IF @.missing_key THEN Raise(@, "KeyError")
                  ELSE [@ EXCEPT !.pc = "hash",
                                 !.verification_result =
                                     { RunVerdict(pl, ts) :
                                       pl \in runs[r].parsed_log,
                                       ts \in runs[r].task_spec }]]
    /\ UNCHANGED <<blob, tasks, tempfiles, arweave, ledger, pvars, vvars, hvars>>

\* verification_report_hash for a run's file, contract and verdict
\* (main.py:82-97)
RunHashOf(log_content, ts, res) ==
    Sha256Hex(VerificationData(FileBytes(log_content), ts, res))

\* main.py:82-98: serialize the parameters, read the file, hash
RunHash(r) ==
    /\ runs[r].pc = "hash"
    /\ runs' = [runs EXCEPT ![r] =
                  [@ EXCEPT !.pc = "upload",
                            !.verification_report_hash =
                                { RunHashOf(runs[r].log_content, ts, res) :
                                  ts \in runs[r].task_spec,
                                  res \in runs[r].verification_result }]]
    /\ UNCHANGED <<blob, tasks, tempfiles, arweave, ledger, pvars, vvars, hvars>>

\* main.py:100-103: ArweaveUploader().upload_log(log_file_path); the
\* constructor or the upload may fail
UploadLog(r, ok) ==
    /\ runs[r].pc = "upload"
    /\ IF ok
       THEN /\ arweave' = arweave \cup {[by |-> r, data |-> runs[r].log_content]}
            /\ runs' = [runs EXCEPT ![r] = [@ EXCEPT !.pc = "record",
                                                     !.arweave_tx_id = {<<"ar", r>>}]]
       ELSE /\ arweave' = arweave
            /\ runs' = [runs EXCEPT ![r] = Raise(@, "ArweaveError")]
    /\ UNCHANGED <<blob, tasks, tempfiles, ledger, pvars, vvars, hvars>>

\* record_verification called with a constant "compliant" verdict
RecordArgsCompliant(run) ==
    [task_id |-> run.task_id,
     verification_result |-> {TRUE},
     verification_report_hash |-> run.verification_report_hash]

\* the arguments main.py:107-111 passes to record_verification
RecordArgs(run) ==
    [task_id |-> run.task_id,
     verification_result |-> run.verification_result,
     verification_report_hash |-> run.verification_report_hash]

\* main.py:105-112: SolanaClient().record_verification(...); the constructor
\* or the call may fail (blockchain.py:26-97)
RecordVerification(r, ok) ==
    /\ runs[r].pc = "record"
    /\ IF ok
       THEN /\ ledger' = Append(ledger, [by |-> r, args |-> RecordArgs(runs[r])])
            /\ runs' = [runs EXCEPT ![r] = [@ EXCEPT !.pc = "update",
                                                     !.tx_signature = {<<"sig", r>>}]]
       ELSE /\ ledger' = ledger
            /\ runs' = [runs EXCEPT ![r] = Raise(@, "SolanaError")]
    /\ UNCHANGED <<blob, tasks, tempfiles, arweave, pvars, vvars, hvars>>

\* task_update (main.py:115-121)
TaskUpdate(run) ==
    [verification_result |-> run.verification_result,
     verification_report_hash |-> run.verification_report_hash,
     arweave_tx_id |-> run.arweave_tx_id,
     solana_tx_signature |-> run.tx_signature]

\* main.py:114-124: update the task document; the update may fail
UpdateTask(r, ok) ==
    /\ runs[r].pc = "update"
    /\ IF ok
       THEN /\ tasks' = [tasks EXCEPT ![runs[r].task_id].verification =
                             {[by |-> r, fields |-> TaskUpdate(runs[r])]}]
            /\ runs' = [runs EXCEPT ![r] = [@ EXCEPT !.pc = "unlink",
                                                     !.writes = @ + 1]]
       ELSE /\ tasks' = tasks
            /\ runs' = [runs EXCEPT ![r] = Raise(@, "FirestoreError")]
    /\ UNCHANGED <<blob, tempfiles, arweave, ledger, pvars, vvars, hvars>>

\* main.py:126-127: os.unlink(log_file_path), then return
Unlink(r) ==
    /\ runs[r].pc = "unlink"
    /\ tempfiles' = tempfiles \ {runs[r].log_file_path}
    /\ runs' = [runs EXCEPT ![r] = [@ EXCEPT !.pc = "done"]]
    /\ UNCHANGED <<blob, tasks, arweave, ledger, pvars, vvars, hvars>>

\* Runs for which a LogParser exists on the downloaded recording, about to
\* execute main.py:67.  (A run of Spec never gets here: the temporary file's
\* name has no .bin suffix and LogParserInit rejects it.)
InitAnchor ==
    /\ \E ts \in StoredSpecs, mk \in BOOLEAN :
         /\ tasks = [t \in TaskIds |->
                       IF t = T1 THEN [exists |-> TRUE, task_spec |-> {ts},
                                       missing_key |-> mk, verification |-> {}]
                       ELSE NoDoc]
         /\ \E content \in [RunIds -> Uploads] :
              /\ runs = [r \in RunIds |->
                           [NoRun EXCEPT !.pc = "parse", !.file_path = LogT1,
                                         !.task_id = T1, !.task_spec = {ts},
                                         !.missing_key = mk,
                                         !.log_file_path = TempName(r),
                                         !.log_content = content[r]]]
              /\ blob = [path \in Paths |->
                           IF path = LogT1 THEN content[2] ELSE <<>>]
    /\ tempfiles = { TempName(r) : r \in RunIds }
    /\ arweave = {}
    /\ ledger = <<>>

-----------------------------------------------------------------------------
(* Specifications                                                          *)

NextParser == RecvMatch \/ ParseFinish
InitParserSpec == InitParser /\ ValidatorIdle /\ HashIdle /\ HandlerIdle
SpecParser == InitParserSpec /\ [][NextParser]_vars

NextValidator == Construct \/ CallValidate \/ CallDetails
InitValidatorSpec == ParserIdle /\ InitValidator /\ HashIdle /\ HandlerIdle
SpecValidator == InitValidatorSpec /\ [][NextValidator]_vars

NextHash == BuildHash
InitHashSpec == ParserIdle /\ ValidatorIdle /\ InitHash /\ HandlerIdle
SpecHash == InitHashSpec /\ [][NextHash]_vars

Next == \/ \E r \in RunIds, path \in Paths, content \in Uploads :
             Trigger(r, path, content)
        \/ \E r \in RunIds : Start(r)
        \/ \E r \in RunIds : GetTask(r)
        \/ \E r \in RunIds, ok \in BOOLEAN : Download(r, ok)
        \/ \E r \in RunIds : ConstructParser(r)
Init == ParserIdle /\ ValidatorIdle /\ HashIdle /\ InitHandler
Spec == Init /\ [][Next]_vars

\* Every step of the handler.  Its behaviours are those of Spec together with
\* those that start from InitAnchor, so that the statements after main.py:66
\* are exercised as well.
NextRun == \/ \E r \in RunIds, path \in Paths, content \in Uploads :
                Trigger(r, path, content)
           \/ \E r \in RunIds : Start(r)
           \/ \E r \in RunIds : GetTask(r)
           \/ \E r \in RunIds, ok \in BOOLEAN : Download(r, ok)
           \/ \E r \in RunIds : ConstructParser(r)
           \/ \E r \in RunIds : RunParse(r)
           \/ \E r \in RunIds : RunValidate(r)
           \/ \E r \in RunIds : RunHash(r)
           \/ \E r \in RunIds, ok \in BOOLEAN : UploadLog(r, ok)
           \/ \E r \in RunIds, ok \in BOOLEAN : RecordVerification(r, ok)
           \/ \E r \in RunIds, ok \in BOOLEAN : UpdateTask(r, ok)
           \/ \E r \in RunIds : Unlink(r)
InitRun == /\ ParserIdle /\ ValidatorIdle /\ HashIdle
           /\ (InitHandler \/ InitAnchor)
SpecRun == InitRun /\ [][NextRun]_vars

-----------------------------------------------------------------------------
(* Claims about LogParser.parse  (SpecParser)                              *)

IsFix(m) == m.type = "GPS" /\ m.Status >= 3

\* timestamps of the recording's qualifying fixes, in arrival order
FixTimes(rec) == LET f == SelectSeq(rec, IsFix) IN [i \in DOMAIN f |-> f[i].ts]

\* C1: whenever parse returns a summary, start_time is the least and end_time
\* the greatest timestamp of the captured fixes and duration is their
\* difference, also when the least timestamp is 0.
C1_DurationIsSpan ==
    \A s \in parse_out.returned :
        /\ s.start_time = SeqMin(FixTimes(log))
        /\ s.end_time = SeqMax(FixTimes(log))
        /\ s.duration = s.end_time - s.start_time

\* C2: a recording without any GPS message of Status >= 3 makes parse raise
\* and return no summary.
C2_NoFixRaises ==
    (parser.pc = "done" /\ SelectSeq(log, IsFix) = <<>>)
        => (parse_out.raised = "ValueError" /\ parse_out.returned = {})

\* parse has finished on a recording whose only GPS messages are below the
\* 3D-fix threshold, and it raised
C2_Witness ==
    /\ parser.pc = "done"
    /\ \E i \in DOMAIN log : log[i].type = "GPS"
    /\ \A i \in DOMAIN log : log[i].type = "GPS" => log[i].Status < 3
    /\ parse_out.raised = "ValueError"
    /\ parse_out.returned = {}

-----------------------------------------------------------------------------
(* Claims about FlightValidator  (SpecValidator)                           *)

\* the rectangle of the task contract, from the constructor's arguments: one
\* degree of latitude either side; one degree of longitude either side at the
\* equator, two at 60 degrees, minus two at 120 degrees
InBox(p) ==
    LET lat_offset == 1
        lng_offset == IF vin.location.lat = 0 THEN 1
                      ELSE IF vin.location.lat = 60 THEN 2 ELSE -2
    IN /\ vin.location.lat - lat_offset <= p.lat
       /\ p.lat <= vin.location.lat + lat_offset
       /\ vin.location.lng - lng_offset <= p.lng
       /\ p.lng <= vin.location.lng + lng_offset

AllInBox == \A i \in DOMAIN vin.flight_data.gps_points :
                InBox(vin.flight_data.gps_points[i])

GeofenceOk == ~vin.geofencing_enabled \/ AllInBox
DurationOk == vin.flight_data.duration >= vin.min_duration
AltitudeOk == vin.flight_data.max_altitude <= vin.max_altitude

DetailCalls == { i \in DOMAIN calls : calls[i].fn = "details" }

\* C3: the geofence sub-check is true when geofencing is disabled and
\* otherwise true exactly when every sample lies in the rectangle, edges
\* included, whatever the position of an offending sample.
C3_GeofenceIsForAll ==
    \A i \in DetailCalls : \A d \in calls[i].details :
        d.geofence_valid = GeofenceOk

\* geofencing is on, the first sample sits on an edge of the rectangle, a
\* later one is outside, and the sub-check was reported false
C3_Witness ==
    /\ vin.geofencing_enabled
    /\ vin.location.lat = 60
    /\ Len(vin.flight_data.gps_points) = 2
    /\ vin.flight_data.gps_points[1].lat = 59
    /\ vin.flight_data.gps_points[1].lng = 19
    /\ ~InBox(vin.flight_data.gps_points[2])
    /\ \E i \in DetailCalls : \E d \in calls[i].details : ~d.geofence_valid

\* C4: duration_ok is duration >= min_duration and altitude_ok is
\* max_altitude <= the limit, both inclusive.
C4_InclusiveThresholds ==
    \A i \in DetailCalls : \A d \in calls[i].details :
        /\ d.duration_valid = DurationOk
        /\ d.altitude_valid = AltitudeOk

\* a flight exactly at the minimum duration and exactly at the altitude limit
\* passed both checks
C4_Witness ==
    /\ vin.flight_data.duration = vin.min_duration
    /\ vin.flight_data.max_altitude = vin.max_altitude
    /\ \E i \in DetailCalls : \E d \in calls[i].details :
           d.duration_valid /\ d.altitude_valid

\* C5: validate() returns the conjunction of the three sub-checks,
\* get_validation_details() reports the same sub-checks and the same overall
\* value, and repeated calls in any order agree.
C5_EntryPointsAgree ==
    /\ \A i \in DOMAIN calls :
           calls[i].overall = (DurationOk /\ AltitudeOk /\ GeofenceOk)
    /\ \A i \in DetailCalls : \A d \in calls[i].details :
           /\ d.duration_valid = DurationOk
           /\ d.altitude_valid = AltitudeOk
           /\ d.geofence_valid = GeofenceOk
           /\ d.overall_valid = calls[i].overall
    /\ \A i, j \in DOMAIN calls : calls[i].overall = calls[j].overall

\* both entry points were called on a flight that fails only the geofence
C5_Witness ==
    /\ Len(calls) = 2
    /\ calls[1].fn = "details" /\ calls[2].fn = "validate"
    /\ DurationOk /\ AltitudeOk /\ ~GeofenceOk
    /\ ~calls[2].overall

\* C7: a validator is only ever built for a centre latitude within
\* [-90, 90], and its rectangle never has min_lng > max_lng.
C7_InvalidLatitudeRejected ==
    \A v \in validator :
        /\ v.center_location.lat >= -90
        /\ v.center_location.lat <= 90
        /\ v.bounds.min_lng <= v.bounds.max_lng

-----------------------------------------------------------------------------
(* Claims about the report hash input  (SpecHash)                          *)

\* C6: two runs feed the same bytes to SHA-256 exactly when they have the
\* same raw bytes, the same five parameters and the same verdict; the task id
\* plays no part.
C6_HashInputBinds ==
    \A a \in hruns.prev, b \in hruns.cur :
        (a.verification_data = b.verification_data)
            <=> /\ a.log_content = b.log_content
                /\ a.task_spec = b.task_spec
                /\ a.verification_result = b.verification_result

\* two runs for different tasks with equal recording, parameters and verdict
\* produced the same hash input
C6_Witness ==
    \E a \in hruns.prev, b \in hruns.cur :
        /\ a.task_id # b.task_id
        /\ a.log_content = b.log_content /\ a.log_content # <<>>
        /\ a.task_spec = b.task_spec
        /\ a.verification_result = b.verification_result
        /\ a.verification_data = b.verification_data

-----------------------------------------------------------------------------
(* Claims about process_drone_log                                          *)

WrittenBy(r) == { w \in UNION { tasks[t].verification : t \in TaskIds } : w.by = r }
RecordedBy(r) == { i \in DOMAIN ledger : ledger[i].by = r }

\* C8: a run that raised wrote nothing to the task document; a run writes the
\* document at most once; a write carries verdict, hash, Arweave id and Solana
\* signature together; a run that returned normally from a log path made its
\* one write.
C8_NoPartialVerdict ==
    \A r \in RunIds :
        /\ runs[r].pc = "raised" => (runs[r].writes = 0 /\ WrittenBy(r) = {})
        /\ runs[r].pc = "ignored" => runs[r].writes = 0
        /\ runs[r].writes <= 1
        /\ runs[r].pc = "done" => runs[r].writes = 1
        /\ \A w \in WrittenBy(r) :
               /\ Cardinality(w.fields.verification_result) = 1
               /\ Cardinality(w.fields.verification_report_hash) = 1
               /\ Cardinality(w.fields.arweave_tx_id) = 1
               /\ Cardinality(w.fields.solana_tx_signature) = 1

\* a triggered run downloaded the log, raised at the parser construction and
\* the task document carries no verification fields
C8_Witness ==
    \E r \in RunIds :
        /\ runs[r].pc = "raised"
        /\ runs[r].raised = "ValueError"
        /\ runs[r].log_file_path = TempName(r)
        /\ \E q \in RunIds : runs[q].pc = "idle"
        /\ tasks[T1].verification = {}

\* the verdict validate() returns for the run's recording and contract, and
\* the hash of recording, parameters and that verdict
ExpVerdict(r) == { RunVerdict(pl, ts) : pl \in Parse(runs[r].log_content).returned,
                                        ts \in runs[r].task_spec }
ExpHash(r) == { RunHashOf(runs[r].log_content, ts, res) :
                ts \in runs[r].task_spec, res \in ExpVerdict(r) }

\* C9: nothing is anchored before verdict and hash exist, and the verdict and
\* hash a run passes to record_verification and writes to Firestore are the
\* ones it computed, whatever the outcome of the anchoring calls.
C9_AnchoringKeepsVerdict ==
    \A r \in RunIds :
        /\ runs[r].verification_result # {}
               => runs[r].verification_result = ExpVerdict(r)
        /\ runs[r].verification_report_hash # {}
               => runs[r].verification_report_hash = ExpHash(r)
        /\ (\E a \in arweave : a.by = r)
               => /\ Cardinality(runs[r].verification_result) = 1
                  /\ Cardinality(runs[r].verification_report_hash) = 1
        /\ \A i \in RecordedBy(r) :
               /\ Cardinality(ledger[i].args.verification_result) = 1
               /\ ledger[i].args.verification_result = ExpVerdict(r)
               /\ ledger[i].args.verification_report_hash = ExpHash(r)
        /\ \A w \in WrittenBy(r) :
               /\ Cardinality(w.fields.verification_result) = 1
               /\ w.fields.verification_result = ExpVerdict(r)
               /\ w.fields.verification_report_hash = ExpHash(r)

\* one run stored a non-compliant verdict on the ledger and in the document,
\* the other recorded a compliant verdict on the ledger and then failed at
\* the Firestore update
C9_Witness ==
    \E r, q \in RunIds :
        /\ runs[r].pc = "done"
        /\ \E w \in WrittenBy(r) : w.fields.verification_result = {FALSE}
        /\ \E i \in RecordedBy(r) : ledger[i].args.verification_result = {FALSE}
        /\ runs[q].raised = "FirestoreError"
        /\ \E i \in RecordedBy(q) : ledger[i].args.verification_result = {TRUE}

\* C10: two invocations for the same logs/<task_id>.bin path are never in
\* progress at the same time.
C10_OneRunPerTask ==
    \A r, q \in RunIds :
        (r # q /\ Active(runs[r]) /\ Active(runs[q])
               /\ StartsWithLogs(runs[r].file_path)
               /\ EndsWithBin(runs[r].file_path))
            => runs[r].file_path # runs[q].file_path

-----------------------------------------------------------------------------
(* Further claims about LogParser.parse  (SpecParser)                      *)

\* the recording's qualifying fixes in arrival order, in engineering units
FixSamples(rec) ==
    LET f == SelectSeq(rec, IsFix)
    IN [i \in DOMAIN f |-> [lat |-> f[i].Lat \div 10000000,
                            lng |-> f[i].Lng \div 10000000,
                            alt |-> f[i].Alt \div 100,
                            timestamp |-> f[i].ts]]

\* C11: the returned samples are the GPS messages of Status >= 3, one sample
\* each, in arrival order; all other messages contribute no sample and leave
\* duration, max_altitude and avg_altitude as they are for the recording
\* reduced to its qualifying fixes.
C11_SamplesAreTheFixes ==
    \A s \in parse_out.returned :
        LET fx == FixSamples(log)
            alts == [i \in DOMAIN fx |-> fx[i].alt]
        IN /\ s.gps_points = fx
           /\ s.max_altitude = SeqMax(alts)
           /\ s.avg_altitude = <<SeqSum(alts), Len(alts)>>
           /\ \A t \in Parse(SelectSeq(log, IsFix)).returned :
                  /\ s.duration = t.duration
                  /\ s.max_altitude = t.max_altitude
                  /\ s.avg_altitude = t.avg_altitude

\* parse returned two samples of different altitude from a recording of three
\* messages, one of them a GPS message below the threshold or another type
C11_Witness ==
    /\ Len(log) = 3
    /\ \E i \in DOMAIN log : ~IsFix(log[i])
    /\ \E s \in parse_out.returned :
           /\ Len(s.gps_points) = 2
           /\ s.gps_points[1].alt # s.gps_points[2].alt
           /\ s.gps_points[1].timestamp # s.gps_points[2].timestamp

-----------------------------------------------------------------------------
(* Further claims about process_drone_log                                  *)

\* the run was triggered for a logs/<task_id>.bin object whose task document
\* exists with all five parameters, and it downloaded a recording that has a
\* qualifying fix
GoodUpload(r) ==
    /\ StartsWithLogs(runs[r].file_path) /\ EndsWithBin(runs[r].file_path)
    /\ runs[r].task_spec # {} /\ ~runs[r].missing_key
    /\ runs[r].log_file_path # <<>>
    /\ SelectSeq(runs[r].log_content, IsFix) # <<>>

\* C12: a run for such an upload gets past the download and the LogParser
\* construction; up to the Arweave call it does not raise.
C12_GoodUploadIsProcessed ==
    \A r \in RunIds :
        GoodUpload(r) => (runs[r].pc # "raised"
                          \/ runs[r].verification_report_hash # {})

C14_TempFileRemoved ==
    \A r \in RunIds :
        runs[r].pc \in {"done", "raised", "ignored"} => TempName(r) \notin tempfiles

====
